---- MODULE Spec2Model ----
(***************************************************************************)
(* Model of the CardTraders seed scripts against one shared MongoDB        *)
(* database:                                                               *)
(*   infra/scripts/seed_uploaded_card.py  (next_seq, Card Insert main)     *)
(*   infra/scripts/seed_mongo_user.py     (ensure_indexes, User Upsert)    *)
(* Every invocation of a script is one process.  A process takes one step  *)
(* per storage call; each storage call is atomic at the server.            *)
(***************************************************************************)
EXTENDS Integers, Naturals, Sequences, FiniteSets, TLC

\* ---------------------------------------------------------------- bounds
NumCardProcs == 3       \* invocations of seed_uploaded_card.py
NumUserProcs == 2       \* invocations of seed_mongo_user.py
MaxInitSeq == 1         \* largest counter value left by earlier runs

CardProcs == 1..NumCardProcs
UserProcs == (NumCardProcs + 1)..(NumCardProcs + NumUserProcs)
Procs == CardProcs \cup UserProcs

\* ------------------------------------------------------------- constants
CardCounter == "uploadedCards"
OtherCounter == "otherCounter"   \* a counter name next_seq is not called with here
CounterNames == {CardCounter, OtherCounter}
Category == "pokemon"
None == "None"
Absent == 0             \* a counter document that is missing, read as 0 by $inc

VARIABLES
  counters,       \* db.counters: counter name -> seq (a name is in DOMAIN iff the document exists)
  uploadedCards,  \* db.uploadedCards: sequence of card documents in insertion order
  users,          \* db.users: sequence of user documents in insertion order
  indexes,        \* names of the unique indexes of db.users
  clock,          \* wall clock read by datetime.now(timezone.utc); every read is a later instant
  pc,             \* position of each invocation
  doc,            \* the local variable doc of each invocation
  args,           \* the parsed arguments of each user invocation
  res,            \* outcome of the write of each user invocation
  seq0,           \* history: counter value before the first invocation
  overlapped,     \* history: some card invocation ran while another held an id
  warned,         \* the --starred candidates each user invocation printed a WARN line for
  report,         \* the Inserted/Updated line each user invocation printed
  before,         \* history: user documents matching the invocation's email right before its write
  after,          \* history: user documents matching the invocation's email right after its write
  prior           \* history: the user invocations that had ended when this one began

vars == <<counters, uploadedCards, users, indexes, clock, pc, doc, args, res,
          warned, report, seq0, overlapped, before, after, prior>>

\* ------------------------------------------------------- storage helpers
\* value of counter name, an absent document counting as 0 (what $inc starts from)
Stored(cs, name) == IF name \in DOMAIN cs THEN cs[name] ELSE Absent

\* Python's `x or 1` on the seq field
OrOneAlways(x) == 1
OrOne(x) == IF x = 0 THEN 1 ELSE x

\* next_seq(db, name): find_one_and_update({_id: name}, {$inc: {seq: 1}},
\* upsert=True, return_document=AFTER); one atomic storage operation.
\* Gives the new counters collection and the returned integer.
next_seq_before(cs, name) ==
  LET old == Stored(cs, name)
      new == [n \in DOMAIN cs \cup {name} |-> IF n = name THEN old + 1 ELSE cs[n]]
  IN  [counters |-> new, ret |-> OrOne(old)]

next_seq_no_store(cs, name) ==
  [counters |-> cs, ret |-> OrOne(Stored(cs, name) + 1)]

next_seq_by_two(cs, name) ==
  LET new == [n \in DOMAIN cs \cup {name} |->
                IF n = name THEN Stored(cs, name) + 2 ELSE cs[n]]
  IN  [counters |-> new, ret |-> OrOne(new[name])]

next_seq_all_names(cs, name) ==
  LET new == [n \in DOMAIN cs \cup {name} |-> Stored(cs, n) + 1]
  IN  [counters |-> new, ret |-> OrOne(new[name])]

next_seq(cs, name) ==
  LET new == [n \in DOMAIN cs \cup {name} |->
                IF n = name THEN Stored(cs, name) + 1 ELSE cs[n]]
  IN  [counters |-> new, ret |-> OrOne(new[name])]

\* ------------------------------------------------------ Card Insert main
\* lines 26-35: doc = {"id": next_seq(db, "uploadedCards"), ..., "createdAt": now}
CardNextSeq(p) ==
  /\ p \in CardProcs
  /\ pc[p] = "idle"
  /\ LET r == next_seq(counters, CardCounter)
     IN  /\ counters' = r.counters
         /\ doc' = [doc EXCEPT ![p] = [id |-> r.ret, category |-> Category,
                                       createdAt |-> clock]]
  /\ clock' = clock + 1
  /\ overlapped' = (overlapped \/ \E q \in CardProcs : pc[q] = "c_insert")
  /\ pc' = [pc EXCEPT ![p] = "c_insert"]
  /\ UNCHANGED <<uploadedCards, users, indexes, args, res, warned, report, seq0,
                 before, after, prior>>

\* the counter service is unavailable: the exception leaves main, nothing is written
CardNextSeqFail(p) ==
  /\ p \in CardProcs
  /\ pc[p] = "idle"
  /\ pc' = [pc EXCEPT ![p] = "c_failed_seq"]
  /\ UNCHANGED <<counters, uploadedCards, users, indexes, clock, doc, args, res,
                 warned, report, seq0, overlapped, before, after, prior>>

\* line 37: db["uploadedCards"].insert_one(doc)
CardInsertReplace(p) ==
  /\ p \in CardProcs
  /\ pc[p] = "c_insert"
  /\ LET same == {i \in DOMAIN uploadedCards : uploadedCards[i].category = doc[p].category}
     IN  uploadedCards' = IF same = {} THEN Append(uploadedCards, doc[p])
                          ELSE [uploadedCards EXCEPT ![CHOOSE i \in same : TRUE] = doc[p]]
  /\ pc' = [pc EXCEPT ![p] = "c_done"]
  /\ UNCHANGED <<counters, users, indexes, clock, doc, args, res, warned, report,
                 seq0, overlapped, before, after, prior>>

CardInsertOne(p) ==
  /\ p \in CardProcs
  /\ pc[p] = "c_insert"
  /\ uploadedCards' = Append(uploadedCards, doc[p])
  /\ pc' = [pc EXCEPT ![p] = "c_done"]
  /\ UNCHANGED <<counters, users, indexes, clock, doc, args, res, warned, report,
                 seq0, overlapped, before, after, prior>>

\* insert_one raises (storage unavailable): main ends, the id is spent
CardInsertFailRetry(p) ==
  /\ p \in CardProcs
  /\ pc[p] = "c_insert"
  /\ pc' = [pc EXCEPT ![p] = "idle"]
  /\ UNCHANGED <<counters, uploadedCards, users, indexes, clock, doc, args, res,
                 warned, report, seq0, overlapped, before, after, prior>>

CardInsertFail(p) ==
  /\ p \in CardProcs
  /\ pc[p] = "c_insert"
  /\ pc' = [pc EXCEPT ![p] = "c_failed_insert"]
  /\ UNCHANGED <<counters, uploadedCards, users, indexes, clock, doc, args, res,
                 warned, report, seq0, overlapped, before, after, prior>>

\* ------------------------------------------------------ user seed inputs
\* e-mail addresses are strings, here sequences of characters
RawEmails == { <<"A", "@", "x">>, <<"a", "@", "x">>, <<"b", "@", "x">> }
ForcedIds == { "forced_1", "app_1" }   \* values of --user-id
\* values of f"usr_{uuid.uuid4().hex[:12]}": every invocation draws a fresh one
GenIds == <<"usr_1", "usr_2", "usr_3", "usr_4">>

\* str.lower() on the characters in use
LowerChar(c) == CASE c = "A" -> "a" [] c = "B" -> "b" [] c = "X" -> "x" [] OTHER -> c
Lower(s) == [i \in DOMAIN s |-> LowerChar(s[i])]

\* bson.ObjectId(s) for a str: exactly 24 hexadecimal digits are accepted,
\* anything else raises InvalidId; the value is the 12 bytes the digits
\* spell, so the letter case of the input is not kept
ObjectIdHexLen == 24
HexDigits == {"0", "1", "2", "3", "4", "5", "6", "7", "8", "9",
              "a", "b", "c", "d", "e", "f", "A", "B", "C", "D", "E", "F"}
HexLower(c) ==
  CASE c = "A" -> "a" [] c = "B" -> "b" [] c = "C" -> "c"
    [] c = "D" -> "d" [] c = "E" -> "e" [] c = "F" -> "f" [] OTHER -> c
IsObjectIdString(s) == Len(s) = ObjectIdHexLen /\ \A i \in DOMAIN s : s[i] \in HexDigits
ObjectId(s) == [oid |-> [i \in DOMAIN s |-> HexLower(s[i])]]

\* values of --starred and --blocked
Repeat3(w) == w \o w \o w
OidDead == Repeat3(<<"d", "e", "a", "d", "b", "e", "e", "f">>)
OidUpper == Repeat3(<<"A", "B", "A", "D", "1", "D", "E", "A">>)
NotAnId == <<"n", "o", "t", "-", "a", "n", "-", "i", "d">>
ListInputs ==
  { [starred |-> <<>>, blocked |-> <<>>],
    [starred |-> <<OidDead, NotAnId, OidUpper>>, blocked |-> <<"usr_9">>] }

\* lines 87-92: the loop over args.starred
RECURSIVE ParseStarred(_)
ParseStarred(ss) ==
  IF ss = <<>>
  THEN [starred |-> <<>>, warned |-> <<>>]
  ELSE LET r == ParseStarred(SubSeq(ss, 1, Len(ss) - 1))
           c == ss[Len(ss)]
       IN  IF IsObjectIdString(c)
           THEN [starred |-> Append(r.starred, ObjectId(c)), warned |-> r.warned]
           ELSE [starred |-> r.starred, warned |-> Append(r.warned, c)]

\* a user document written by the application before the seed script runs
AppUser ==
  [userId |-> "app_1", email |-> <<"a", "@", "x">>, suggested_num |-> 2,
   starred_item |-> <<ObjectId(OidDead)>>, messages |-> <<"m">>,
   blocked_users |-> <<"usr_7">>, createdAt |-> 0, updatedAt |-> 0]

\* line 81: user_id = args.user_id or f"usr_{uuid.uuid4().hex[:12]}"
ResolveUserId(forced, gen) == IF forced # None THEN forced ELSE gen

\* lines 94-117: the canonical document
BuildDoc(a, uid, now) ==
  [userId |-> uid, email |-> Lower(a.email), suggested_num |-> 0,
   starred_item |-> ParseStarred(a.starred).starred, messages |-> <<>>,
   blocked_users |-> a.blocked, createdAt |-> now, updatedAt |-> now]

\* line 120: the two operator payloads of the update document
SetPayload(d) == d
SetOnInsertNothing(uid) == [f \in {} |-> uid]
SetOnInsertPayload(uid) == [userId |-> uid]

\* ------------------------------------------------- users.update_one(...)
\* positions of the documents whose email equals the filter value
Matching(coll, email) == { i \in DOMAIN coll : coll[i].email = email }

\* the documents of the collection satisfy every unique index that exists
UniqueOk(coll, idx) ==
  /\ "uniq_email" \in idx =>
       \A i, j \in DOMAIN coll : coll[i].email = coll[j].email => i = j
  /\ "idx_userId" \in idx =>
       \A i, j \in DOMAIN coll : coll[i].userId = coll[j].userId => i = j

\* a document with the fields of upd written over it
ApplyFields(old, upd) ==
  [f \in DOMAIN old \cup DOMAIN upd |-> IF f \in DOMAIN upd THEN upd[f] ELSE old[f]]

Min(S) == CHOOSE x \in S : \A y \in S : x <= y

\* update_one({"email": email}, {"$set": setDoc, "$setOnInsert": soiDoc}, upsert=True)
\* as the server executes it, in one atomic step:
\*  1. the update document is parsed; two operators naming the same path
\*     are rejected (ConflictingUpdateOperators, code 40: "Updating the path
\*     'f' would create a conflict at 'f'") before any document is touched;
\*  2. a matching document gets $set applied ($setOnInsert is skipped);
\*  3. with no match a document is built from the filter, $set and
\*     $setOnInsert and inserted;
\*  4. a result that breaks a unique index is rejected (DuplicateKeyError).
update_one_always_inserts(coll, idx, email, setDoc, soiDoc) ==
  [users |-> Append(coll, ApplyFields(ApplyFields([email |-> email], setDoc), soiDoc)),
   result |-> "inserted"]

update_one_unchecked(coll, idx, email, setDoc, soiDoc) ==
  LET m == Matching(coll, email)
  IN  IF m # {}
      THEN [users |-> [coll EXCEPT ![Min(m)] = ApplyFields(coll[Min(m)], setDoc)],
            result |-> "updated"]
      ELSE [users |-> Append(coll, ApplyFields(ApplyFields([email |-> email], setDoc),
                                               soiDoc)),
            result |-> "inserted"]

update_one(coll, idx, email, setDoc, soiDoc) ==
  IF DOMAIN setDoc \cap DOMAIN soiDoc # {}
  THEN [users |-> coll, result |-> "WriteError"]
  ELSE LET m == Matching(coll, email)
           upd == [coll EXCEPT ![Min(m)] = ApplyFields(coll[Min(m)], setDoc)]
           ins == Append(coll, ApplyFields(ApplyFields([email |-> email], setDoc), soiDoc))
           new == IF m # {} THEN upd ELSE ins
       IN  IF UniqueOk(new, idx)
           THEN [users |-> new, result |-> IF m # {} THEN "updated" ELSE "inserted"]
           ELSE [users |-> coll, result |-> "DuplicateKeyError"]

\* ------------------------------------------------------ User Upsert main
\* lines 65-68: create_index is a no-op for an index that exists
ensure_indexes_email_only(idx) == idx \cup {"uniq_email"}
ensure_indexes(idx) == idx \cup {"uniq_email", "idx_userId"}

\* lines 72-77: parse_args, get_client, ensure_indexes(users);
\* the invocations are numbered in the order in which they begin
UserEnsureIndexes(p) ==
  /\ p \in UserProcs
  /\ pc[p] = "idle"
  /\ \A q \in UserProcs : q < p => pc[q] # "idle"
  /\ \E e \in RawEmails, f \in {None} \cup ForcedIds, l \in ListInputs :
       args' = [args EXCEPT ![p] = [email |-> e, user_id |-> f,
                                    starred |-> l.starred, blocked |-> l.blocked]]
  /\ indexes' = ensure_indexes(indexes)
  /\ prior' = [prior EXCEPT ![p] = {q \in UserProcs : pc[q] \in {"u_done", "u_failed"}}]
  /\ pc' = [pc EXCEPT ![p] = "u_prepare"]
  /\ UNCHANGED <<counters, uploadedCards, users, clock, doc, res, warned, report,
                 seq0, overlapped, before, after>>

\* lines 80-117: now, user_id and the document
UserPrepare(p) ==
  /\ p \in UserProcs
  /\ pc[p] = "u_prepare"
  /\ LET gen == GenIds[p - NumCardProcs]
     IN  doc' = [doc EXCEPT ![p] =
                   BuildDoc(args[p], ResolveUserId(args[p].user_id, gen), clock)]
  /\ warned' = [warned EXCEPT ![p] = ParseStarred(args[p].starred).warned]
  /\ clock' = clock + 1
  /\ pc' = [pc EXCEPT ![p] = "u_write"]
  /\ UNCHANGED <<counters, uploadedCards, users, indexes, args, res, report, seq0,
                 overlapped, before, after, prior>>

\* lines 122-125: the line printed after the write, with the local user_id
NoReport == [kind |-> "none"]
Report(result, d) ==
  [kind |-> IF result = "inserted" THEN "Inserted" ELSE "Updated",
   email |-> d.email, userId |-> d.userId]

\* line 120: the upsert; an exception ends main before the report of lines 122-127
UserUpdateOne(p) ==
  /\ p \in UserProcs
  /\ pc[p] = "u_write"
  /\ LET r == update_one(users, indexes, doc[p].email, SetPayload(doc[p]),
                         SetOnInsertPayload(doc[p].userId))
     IN  /\ users' = r.users
         /\ res' = [res EXCEPT ![p] = r.result]
         /\ before' = [before EXCEPT ![p] =
                         SelectSeq(users, LAMBDA u : u.email = doc[p].email)]
         /\ after' = [after EXCEPT ![p] =
                        SelectSeq(r.users, LAMBDA u : u.email = doc[p].email)]
         /\ report' = [report EXCEPT ![p] =
                         IF r.result \in {"inserted", "updated"}
                         THEN Report(r.result, doc[p]) ELSE NoReport]
         /\ pc' = [pc EXCEPT ![p] =
                     IF r.result \in {"inserted", "updated"} THEN "u_done" ELSE "u_failed"]
  /\ UNCHANGED <<counters, uploadedCards, indexes, clock, doc, args, warned, seq0,
                 overlapped, prior>>

\* ------------------------------------------------------------------ Init
NoDoc == [id |-> 0]

\* the counters collection as earlier runs (and, for other names, the
\* application) may have left it
InitCounters == UNION {[S -> 1..MaxInitSeq] : S \in SUBSET CounterNames}

Init ==
  /\ seq0 \in 0..MaxInitSeq
  /\ counters \in {c \in InitCounters : Stored(c, CardCounter) = seq0}
  /\ uploadedCards = <<>>
  /\ users \in {<<>>, <<AppUser>>}
  /\ indexes = {}
  /\ clock = 1
  /\ pc = [p \in Procs |-> "idle"]
  /\ doc = [p \in Procs |-> NoDoc]
  /\ args = [p \in UserProcs |-> None]
  /\ res = [p \in UserProcs |-> None]
  /\ overlapped = FALSE
  /\ warned = [p \in UserProcs |-> <<>>]
  /\ report = [p \in UserProcs |-> NoReport]
  /\ before = [p \in UserProcs |-> <<>>]
  /\ after = [p \in UserProcs |-> <<>>]
  /\ prior = [p \in UserProcs |-> {}]

\* The two scripts share no collection (counters and uploadedCards on one
\* side, users and its indexes on the other), so each workflow is explored
\* under its own specification.
NextCards ==
  \/ \E p \in CardProcs : CardNextSeq(p)
  \/ \E p \in CardProcs : CardNextSeqFail(p)
  \/ \E p \in CardProcs : CardInsertOne(p)
  \/ \E p \in CardProcs : CardInsertFail(p)

NextUsers ==
  \/ \E p \in UserProcs : UserEnsureIndexes(p)
  \/ \E p \in UserProcs : UserPrepare(p)
  \/ \E p \in UserProcs : UserUpdateOne(p)

SpecCards == Init /\ [][NextCards]_vars
\* the user workflow never reads the counters: it starts from the fresh ones
InitUsers == Init /\ DOMAIN counters = {}
SpecUsers == InitUsers /\ [][NextUsers]_vars

\* card invocations next to one user invocation, on a database that holds a
\* user record and a counter of another name
NumSeedCards == 2
SeedCards == 1..NumSeedCards
SeedUser == NumCardProcs + 1
InitSeed == Init /\ users = <<AppUser>> /\ OtherCounter \in DOMAIN counters
NextSeed ==
  \/ \E p \in SeedCards :
        CardNextSeq(p) \/ CardNextSeqFail(p) \/ CardInsertOne(p) \/ CardInsertFail(p)
  \/ UserEnsureIndexes(SeedUser)
  \/ UserPrepare(SeedUser)
  \/ UserUpdateOne(SeedUser)
SpecSeed == InitSeed /\ [][NextSeed]_vars

\* ================================================== Sequence Counter, cards
\* the card invocations whose next_seq call has returned
HasId(p) == pc[p] \in {"c_insert", "c_done", "c_failed_insert"}
Returned == { p \in CardProcs : HasId(p) }
CardFailed(p) == pc[p] \in {"c_failed_seq", "c_failed_insert"}

\* C1: under any interleaving of invocations calling next_seq with the same
\* counter name, no two calls return the same integer.
C1_NoTwoCallsReturnSame ==
  \A p, q \in Returned : p # q => doc[p].id # doc[q].id

\* two invocations hold an id at the same time, neither has inserted yet
C1_Witness ==
  \E p, q \in CardProcs : p # q /\ pc[p] = "c_insert" /\ pc[q] = "c_insert"

\* C2: N completed next_seq calls for one counter name, starting from the
\* stored value k (0 when the counter is absent), return exactly
\* {k+1, ..., k+N}, and the stored value ends at k+N.
C2_ContiguousRange ==
  /\ { doc[p].id : p \in Returned } = (seq0 + 1)..(seq0 + Cardinality(Returned))
  /\ Stored(counters, CardCounter) = seq0 + Cardinality(Returned)

\* every invocation has got its id, some of them concurrently, from k > 0
C2_Witness ==
  /\ Returned = CardProcs
  /\ overlapped
  /\ seq0 > 0

\* C8: no two records of uploadedCards have the same id.
C8_CardIdsUnique ==
  \A i, j \in DOMAIN uploadedCards :
     i # j => uploadedCards[i].id # uploadedCards[j].id

\* cards of overlapping invocations are stored, the later id inserted first
C8_Witness ==
  /\ Len(uploadedCards) >= 2
  /\ uploadedCards[1].id > uploadedCards[2].id

\* C9: from an absent counter, k sequential successful Card Insert
\* invocations store cards with ids 1, 2, ..., k in invocation order.
C9_SequentialIds ==
  (seq0 = 0 /\ ~overlapped /\ \A p \in CardProcs : ~CardFailed(p)) =>
     /\ \A i \in DOMAIN uploadedCards : uploadedCards[i].id = i
     /\ Len(uploadedCards) = Cardinality({p \in CardProcs : pc[p] = "c_done"})

\* all invocations ran one after the other on a fresh counter and succeeded
C9_Witness ==
  /\ seq0 = 0
  /\ ~overlapped
  /\ \A p \in CardProcs : pc[p] = "c_done"
  /\ Len(uploadedCards) = NumCardProcs

\* C10: a next_seq(name) call increments the stored value of the counter by
\* exactly 1 in one step, an absent counter counting as 0, and returns the
\* value stored for name right after the call.
C10_IncrementAndReturn ==
  [][\A p \in CardProcs :
       (pc[p] = "idle" /\ pc'[p] = "c_insert") =>
          /\ CardCounter \in DOMAIN counters'
          /\ counters'[CardCounter] = Stored(counters, CardCounter) + 1
          /\ doc'[p].id = counters'[CardCounter]]_vars

\* a call on the absent counter has created it at 1 and returned 1
C10_Witness ==
  /\ seq0 = 0
  /\ \E p \in CardProcs : pc[p] = "c_insert" /\ doc[p].id = 1
  /\ CardCounter \in DOMAIN counters /\ counters[CardCounter] = 1

\* ========================================================= User Upsert
Ended(p) == pc[p] \in {"u_done", "u_failed"}
\* p ran to its end before q began and no other invocation has begun
InSequence(p, q) ==
  /\ p # q
  /\ p \in prior[q]
  /\ Ended(q)
  /\ \A r \in UserProcs \ {p, q} : pc[r] = "idle"
\* the fields of user documents other than updatedAt
KeptFields == {"userId", "email", "suggested_num", "starred_item", "messages",
               "blocked_users", "createdAt"}

\* C3: running the User Upsert Workflow twice in sequence with identical
\* input (same email, no forced user id) leaves exactly one stored record
\* for that email, with the same userId and createdAt after the second run
\* as after the first; only updatedAt may differ.
C3_TwiceLeavesOneRecord ==
  \A p, q \in UserProcs :
     (InSequence(p, q) /\ args[p] = args[q] /\ args[p].user_id = None) =>
        /\ Len(after[p]) = 1
        /\ Len(after[q]) = 1
        /\ \A f \in KeptFields : after[q][1][f] = after[p][1][f]

\* C4: once a user record exists for an email with userId u, the stored
\* userId of that record is still u after any later User Upsert invocation
\* (with or without --user-id).
C4_UserIdNeverOverwritten ==
  [][\A i \in DOMAIN users :
       /\ i \in DOMAIN users'
       /\ users'[i].email = users[i].email
       /\ users'[i].userId = users[i].userId]_vars

\* a record exists, and one invocation with a forced id and one with a
\* generated id, both different from the stored one, have ended for its email
C4_Witness ==
  \E i \in DOMAIN users, p, q \in UserProcs :
     /\ Ended(p) /\ Ended(q)
     /\ doc[p].email = users[i].email /\ doc[q].email = users[i].email
     /\ args[p].user_id # None /\ args[q].user_id = None
     /\ doc[p].userId # users[i].userId /\ doc[q].userId # users[i].userId
     /\ users[i].userId = "app_1"

\* C5: under any interleaving of User Upsert invocations the users
\* collection holds at most one record per lowercased email; an invocation
\* never creates a second record for an email.
C5_OneRecordPerEmail ==
  \A i, j \in DOMAIN users :
     Lower(users[i].email) = Lower(users[j].email) => i = j

\* two overlapping invocations for one email, begun while no record
\* existed, have both ended
C5_Witness ==
  \E p, q \in UserProcs :
        /\ p # q /\ Ended(p) /\ Ended(q)
        /\ p \notin prior[q] /\ q \notin prior[p]
        /\ doc[p].email = doc[q].email
        /\ Matching(users, doc[p].email) = {}

\* C6: two User Upsert invocations whose emails differ only in letter case
\* address the same stored record: the second one updates the record the
\* first one created, and the stored email is the lowercased form.
C6_CaseInsensitiveSameRecord ==
  \A p, q \in UserProcs :
     (InSequence(p, q) /\ args[p].email # args[q].email
        /\ Lower(args[p].email) = Lower(args[q].email)) =>
        /\ res[q] = "updated"
        /\ Len(after[q]) = 1
        /\ after[q][1].email = Lower(args[q].email)

\* C7: createdAt is fixed at the first write and updatedAt is the time of
\* the most recent upsert: right after an invocation's upsert the record of
\* its email carries the invocation's time as updatedAt and the time of the
\* inserting invocation as createdAt.
C7_CreatedFixedUpdatedRefreshed ==
  \A q \in UserProcs :
     Ended(q) =>
        /\ Len(after[q]) = 1
        /\ after[q][1].updatedAt = doc[q].updatedAt
        /\ \A p \in UserProcs :
              (Ended(p) /\ res[p] = "inserted" /\ doc[p].email = doc[q].email) =>
                 after[q][1].createdAt = doc[p].createdAt

\* C11: the stored starred_item list is exactly the subsequence of the
\* well-formed --starred candidates in input order; every malformed
\* candidate is excluded with one warning and does not abort the workflow,
\* so the upsert is performed with the valid references.
C11_WellFormed(ss) ==
  LET ok == SelectSeq(ss, IsObjectIdString)
  IN  [i \in DOMAIN ok |-> ObjectId(ok[i])]
C11_StarredFiltered ==
  \A p \in UserProcs :
     Ended(p) =>
        /\ warned[p] = SelectSeq(args[p].starred, LAMBDA c : ~IsObjectIdString(c))
        /\ doc[p].starred_item = C11_WellFormed(args[p].starred)
        /\ Len(after[p]) = 1
        /\ after[p][1].starred_item = C11_WellFormed(args[p].starred)

\* C12: an invocation reports an insert exactly when no record with its
\* lowercased email existed at its write and an update otherwise, and the
\* identifier it reports is the userId stored in the record afterwards.
C12_ReportMatchesWrite ==
  \A p \in UserProcs :
     Ended(p) =>
        /\ report[p].kind \in {"Inserted", "Updated"}
        /\ (report[p].kind = "Inserted") <=> (before[p] = <<>>)
        /\ Len(after[p]) = 1
        /\ report[p].userId = after[p][1].userId

\* C15: an invocation that finds a record for its email overwrites every
\* field other than userId and createdAt with the value it built:
\* suggested_num 0, messages empty, blocked_users and starred_item the
\* lists of this run.
C15_OverwrittenFields ==
  {"email", "suggested_num", "starred_item", "messages", "blocked_users", "updatedAt"}
C15_UpdateOverwrites ==
  \A p \in UserProcs :
     (Ended(p) /\ Len(before[p]) = 1) =>
        /\ Len(after[p]) = 1
        /\ \A f \in C15_OverwrittenFields : after[p][1][f] = doc[p][f]
        /\ after[p][1].suggested_num = 0
        /\ after[p][1].messages = <<>>
        /\ after[p][1].blocked_users = args[p].blocked

\* C13: in every User Upsert invocation both uniqueness constraints (email
\* and userId) exist before the invocation's write, and ensuring a
\* constraint that already exists changes nothing.
C13_BothIndexes == {"uniq_email", "idx_userId"}
C13_IndexesBeforeWrite ==
  [][\A p \in UserProcs :
       /\ (pc[p] = "u_write" /\ pc'[p] # "u_write") => C13_BothIndexes \subseteq indexes
       /\ (pc[p] = "idle" /\ pc'[p] # "idle") => C13_BothIndexes \subseteq indexes'
       /\ (pc[p] = "idle" /\ pc'[p] # "idle" /\ C13_BothIndexes \subseteq indexes) =>
             (indexes' = indexes /\ users' = users)]_vars

\* an invocation that began when the constraints existed has done its write
C13_Witness ==
  \E p, q \in UserProcs : p \in prior[q] /\ Ended(q) /\ indexes = C13_BothIndexes

\* C16: no two user records share a userId; an invocation whose write would
\* break a uniqueness constraint (a new email with a forced userId that
\* another record holds) aborts and leaves the users collection unchanged.
C16_WouldBe(p) ==
  LET m == Matching(users, doc[p].email)
  IN  IF m # {}
      THEN [users EXCEPT ![Min(m)] = ApplyFields(users[Min(m)], doc[p])]
      ELSE Append(users, doc[p])
C16_Unique(coll) ==
  \A i, j \in DOMAIN coll :
     (coll[i].userId = coll[j].userId \/ coll[i].email = coll[j].email) => i = j
C16_UserIdUniqueOrAbort ==
  [][/\ \A i, j \in DOMAIN users' : users'[i].userId = users'[j].userId => i = j
     /\ \A p \in UserProcs :
          (pc[p] = "u_write" /\ pc'[p] # "u_write" /\ ~C16_Unique(C16_WouldBe(p))) =>
             (pc'[p] = "u_failed" /\ users' = users)]_vars

\* an invocation for a new email with the userId of a stored record has
\* aborted and the collection still holds that one record
C16_Witness ==
  \E p \in UserProcs, i \in DOMAIN users :
     /\ pc[p] = "u_failed"
     /\ args[p].user_id = users[i].userId
     /\ doc[p].email # users[i].email
     /\ before[p] = <<>> /\ after[p] = <<>>
     /\ Len(users) = 1

\* ================================================ Card Insert, error paths
\* C17: if the counter service fails, the invocation aborts without writing
\* a card and without retrying; if the insert fails after an id was
\* obtained, the invocation aborts with no card written and no retry.
C17_FailureAborts ==
  [][\A p \in CardProcs :
       /\ (pc'[p] # pc[p] /\ CardFailed(p)') =>
             uploadedCards' = uploadedCards
       /\ pc'[p] = "c_failed_seq" => doc'[p] = NoDoc
       /\ pc'[p] = "c_failed_insert" =>
             \A i \in DOMAIN uploadedCards' : uploadedCards'[i].id # doc'[p].id
       /\ CardFailed(p) => pc'[p] = pc[p]
       /\ pc[p] = "c_insert" => pc'[p] \in {"c_insert", "c_done", "c_failed_insert"}]_vars

\* one invocation failed at the counter, one at the insert, a third stored its card
C17_Witness ==
  \E p, q \in CardProcs :
     /\ pc[p] = "c_failed_seq"
     /\ pc[q] = "c_failed_insert"
     /\ Len(uploadedCards) >= 1

\* C18: a successful Card Insert invocation adds exactly one record to
\* uploadedCards, leaves every stored card as it was (also a card with the
\* same non-id attributes) and leaves the users collection unchanged.
C18_AppendOnly ==
  [][/\ \A i \in DOMAIN uploadedCards :
          i \in DOMAIN uploadedCards' /\ uploadedCards'[i] = uploadedCards[i]
     /\ \A p \in CardProcs :
          (pc[p] = "c_insert" /\ pc'[p] = "c_done") =>
             /\ uploadedCards' = Append(uploadedCards, doc[p])
             /\ users' = users
             /\ indexes' = indexes]_vars

\* two cards of the same category are stored next to a user record
C18_Witness ==
  /\ Len(uploadedCards) >= 2
  /\ uploadedCards[1].category = uploadedCards[2].category
  /\ users = <<AppUser>>

\* C20: every stored card id lies between 1 and the stored value of the
\* uploadedCards counter and there are at most that many cards; the id of
\* an invocation that failed at the insert is not stored and not reissued.
C20_IdsWithinCounter ==
  /\ \A i \in DOMAIN uploadedCards :
        /\ 1 <= uploadedCards[i].id
        /\ uploadedCards[i].id <= Stored(counters, CardCounter)
  /\ Len(uploadedCards) <= Stored(counters, CardCounter)
  /\ \A p \in CardProcs :
        pc[p] = "c_failed_insert" =>
           /\ \A i \in DOMAIN uploadedCards : uploadedCards[i].id # doc[p].id
           /\ \A q \in Returned \ {p} : doc[q].id # doc[p].id

\* a gap: the id of a failed invocation lies below the id of a stored card
C20_Witness ==
  \E p \in CardProcs, i \in DOMAIN uploadedCards :
     pc[p] = "c_failed_insert" /\ doc[p].id < uploadedCards[i].id

\* ===================================================== counter lifecycle
\* C19: a counter is created only by the first next_seq request for its
\* name; its stored value changes only by +1 steps of next_seq calls for
\* that name (never by a call for another name, never by the User Upsert
\* Workflow, never downwards); once created it is never deleted.
C19_NextSeqStep == \E p \in CardProcs : pc[p] = "idle" /\ pc'[p] = "c_insert"
C19_CounterLifecycle ==
  [][/\ \A n \in CounterNames :
          /\ n \in DOMAIN counters => n \in DOMAIN counters'
          /\ (n \in DOMAIN counters' /\ n \notin DOMAIN counters) =>
                (n = CardCounter /\ C19_NextSeqStep /\ counters'[n] = 1)
          /\ Stored(counters', n) # Stored(counters, n) =>
                /\ n = CardCounter
                /\ C19_NextSeqStep
                /\ Stored(counters', n) = Stored(counters, n) + 1
     /\ DOMAIN counters' \subseteq CounterNames
     /\ (\E u \in UserProcs : pc'[u] # pc[u]) => counters' = counters]_vars

\* the uploadedCards counter was created and raised twice, the user
\* invocation has ended, and the counter of the other name still exists
C19_Witness ==
  /\ seq0 = 0
  /\ CardCounter \in DOMAIN counters /\ counters[CardCounter] = 2
  /\ OtherCounter \in DOMAIN counters
  /\ Ended(SeedUser)

====
